---------------------------- MODULE Spec2Model ----------------------------
(***************************************************************************)
(* A model of the HTTP core of the rust-full-stack repository: the request *)
(* parser (http/src/httprequest.rs), the response builder and serializer   *)
(* (http/src/httpresponse.rs), the router (httperver/src/router.rs) and    *)
(* the accept loop (httperver/src/server.rs).                              *)
(*                                                                         *)
(* Text is modelled by TLA+ strings, one character per byte (all the text  *)
(* used is ASCII, so str::len, the byte length, is Len).                   *)
(***************************************************************************)
EXTENDS Integers, Sequences, FiniteSets, TLC

(***************************************************************************)
(* Bounds of the model.                                                    *)
(***************************************************************************)
\* the longest request text given to the parser, in lines
MaxLines == 3
\* the longest body of the form xx...x given to the response builder
MaxBodyLen == 11
\* the connections the listener yields
MaxConns == 2
\* the size of the buffer of Server::run (1024 in the code), scaled down
BufLen == 24

(***************************************************************************)
(* Option<T>                                                               *)
(***************************************************************************)
None == [some |-> FALSE]
Some(v) == [some |-> TRUE, val |-> v]

(***************************************************************************)
(* Text primitives of the Rust standard library, as the code uses them.    *)
(***************************************************************************)
\* the i-th character of s, as a string of length one
Ch(s, i) == SubSeq(s, i, i)

\* s without its first n characters
Drop(s, n) == SubSeq(s, n + 1, Len(s))

\* str::contains(pat)
Contains(s, pat) ==
    \E i \in 1..(Len(s) - Len(pat) + 1) : SubSeq(s, i, i + Len(pat) - 1) = pat

\* str::find(c) for a one-character pattern: the first index, 0 when absent
Find(s, c) ==
    IF \E i \in 1..Len(s) : Ch(s, i) = c
    THEN CHOOSE i \in 1..Len(s) : Ch(s, i) = c /\ \A j \in 1..(i - 1) : Ch(s, j) # c
    ELSE 0

\* str::split(c) for a one-character pattern: every piece, empty ones included
RECURSIVE Split(_, _)
Split(s, c) ==
    LET i == Find(s, c)
    IN  IF i = 0 THEN <<s>>
        ELSE <<SubSeq(s, 1, i - 1)>> \o Split(Drop(s, i), c)

\* str::split_inclusive(c): every piece keeps its terminator; no piece for ""
RECURSIVE SplitInclusive(_, _)
SplitInclusive(s, c) ==
    IF s = "" THEN <<>>
    ELSE LET i == Find(s, c)
         IN  IF i = 0 THEN <<s>>
             ELSE <<SubSeq(s, 1, i)>> \o SplitInclusive(Drop(s, i), c)

\* str::strip_suffix
HasSuffix(s, suf) ==
    Len(s) >= Len(suf) /\ SubSeq(s, Len(s) - Len(suf) + 1, Len(s)) = suf
StripSuffix(s, suf) == SubSeq(s, 1, Len(s) - Len(suf))

\* str::lines: split_inclusive('\n'), then a piece loses its "\n" and, only
\* when it had one, a "\r" before it
LineOf(piece) ==
    IF ~HasSuffix(piece, "\n") THEN piece
    ELSE LET l == StripSuffix(piece, "\n")
         IN  IF HasSuffix(l, "\r") THEN StripSuffix(l, "\r") ELSE l
Lines(s) ==
    LET pieces == SplitInclusive(s, "\n")
    IN  [i \in 1..Len(pieces) |-> LineOf(pieces[i])]

\* char::is_whitespace, on the characters the inputs are made of
IsWhitespace(c) == c \in {" ", "\t", "\n", "\r", "\f"}

\* the length of the longest prefix of s free of whitespace (when ws is FALSE)
\* or made of whitespace (when ws is TRUE)
RECURSIVE Span(_, _)
Span(s, ws) ==
    IF s = "" \/ IsWhitespace(Ch(s, 1)) # ws THEN 0
    ELSE 1 + Span(Drop(s, 1), ws)

\* str::split_whitespace: the maximal runs of non-whitespace, in order
RECURSIVE SplitWhitespace(_)
SplitWhitespace(s) ==
    LET t == Drop(s, Span(s, TRUE))
        n == Span(t, FALSE)
    IN  IF t = "" THEN <<>>
        ELSE <<SubSeq(t, 1, n)>> \o SplitWhitespace(Drop(t, n))

(***************************************************************************)
(* httprequest.rs                                                          *)
(***************************************************************************)
\* impl From<&str> for Method
Method_from(s) ==
    CASE s = "GET" -> "Get"
      [] s = "POST" -> "Post"
      [] OTHER -> "Uninitialized"

\* impl From<&str> for Version: the only literal matched is r"HTTP\1.1",
\* with a backslash
Version_from(s) ==
    CASE s = "HTTP\\1.1" -> "V1_1"
      [] OTHER -> "Uninitialized"

\* HashMap::new and HashMap::insert, a map being a function on its key set
EmptyMap == [k \in {} |-> ""]
Insert(map, key, value) ==
    [k \in (DOMAIN map) \cup {key} |-> IF k = key THEN value ELSE map[k]]

\* process_req_line: three Iterator::next().unwrap() on the whitespace
\* split; an unwrap of a missing token panics
process_req_line(s) ==
    LET words == SplitWhitespace(s)
    IN  IF Len(words) < 3 THEN [panicked |-> TRUE]
        ELSE [panicked |-> FALSE,
              method   |-> Method_from(words[1]),
              resource |-> words[2],
              version  |-> Version_from(words[3])]

\* process_header_line: split on every ":", the first piece is the key and
\* the second, when there is one, the value
process_header_line(s) ==
    LET header_items == Split(s, ":")
    IN  [key   |-> header_items[1],
         value |-> IF Len(header_items) >= 2 THEN header_items[2] ELSE ""]

\* a body branch that appends the line to the body instead
BodyLine_append(msg_body, line) == msg_body \o line

\* the assignment of the body branch of the loop: the line replaces the body
BodyLine(msg_body, line) == line

\* the locals of From<String> for HttpRequest before the loop
ParserInit ==
    [method   |-> "Uninitialized",
     version  |-> "Uninitialized",
     resource |-> "",
     headers  |-> EmptyMap,
     msg_body |-> "",
     panicked |-> FALSE]

\* one iteration of the loop over req.lines()
ForLine(st, line) ==
    IF Contains(line, "HTTP") THEN
        LET r == process_req_line(line)
        IN  IF r.panicked THEN [st EXCEPT !.panicked = TRUE]
            ELSE [st EXCEPT !.method = r.method,
                            !.version = r.version,
                            !.resource = r.resource]
    ELSE IF Contains(line, ":") THEN
        LET h == process_header_line(line)
        IN  [st EXCEPT !.headers = Insert(st.headers, h.key, h.value)]
    ELSE IF Len(line) = 0 THEN st
    ELSE [st EXCEPT !.msg_body = BodyLine(st.msg_body, line)]

\* the loop over the first n lines; a panic ends it
RECURSIVE ParseLines(_, _)
ParseLines(ls, n) ==
    IF n = 0 THEN ParserInit
    ELSE LET st == ParseLines(ls, n - 1)
         IN  IF st.panicked THEN st ELSE ForLine(st, ls[n])

\* the HttpRequest struct built from the locals after the loop
HttpRequest(st) ==
    [method   |-> st.method,
     version  |-> st.version,
     resource |-> st.resource,
     headers  |-> st.headers,
     msg_body |-> st.msg_body]

\* impl From<String> for HttpRequest: the locals after the loop, or a panic
HttpRequest_from(req) ==
    LET ls == Lines(req)
    IN  ParseLines(ls, Len(ls))

(***************************************************************************)
(* httpresponse.rs                                                         *)
(***************************************************************************)
\* impl Default for HttpResponse
HttpResponse_default ==
    [version     |-> "HTTP/1.1",
     status_code |-> "200",
     status_text |-> "OK",
     headers     |-> None,
     body        |-> None]

\* the match on response.status_code in HttpResponse::new
StatusText(status_code) ==
    CASE status_code = "200" -> "OK"
      [] status_code = "400" -> "Bad Request"
      [] status_code = "404" -> "Not Found"
      [] status_code = "500" -> "Internal Server Error"
      [] OTHER -> "Not Found"

\* the map HttpResponse::new substitutes for absent headers
DefaultHeaders == Insert(EmptyMap, "Content-Type", "text/html")

\* HttpResponse::new
HttpResponse_new(status_code, headers, body) ==
    LET r0 == HttpResponse_default
        r1 == IF status_code # "200"
              THEN [r0 EXCEPT !.status_code = status_code] ELSE r0
        r2 == [r1 EXCEPT !.headers =
                  IF headers.some THEN headers ELSE Some(DefaultHeaders)]
        r3 == [r2 EXCEPT !.status_text = StatusText(r2.status_code)]
    IN  [r3 EXCEPT !.body = body]

\* the orders in which HashMap::iter may yield the keys of a map
IterOrders(map) ==
    LET keys == DOMAIN map
        n    == Cardinality(keys)
    IN  {o \in [1..n -> keys] : \A i, j \in 1..n : o[i] = o[j] => i = j}

\* the loop of HttpResponse::headers over the first n keys of an order
RECURSIVE HeaderString(_, _, _)
HeaderString(map, order, n) ==
    IF n = 0 THEN ""
    ELSE HeaderString(map, order, n - 1)
             \o order[n] \o ":" \o map[order[n]] \o "\r\n"

\* HttpResponse::body
Body(res) == IF res.body.some THEN res.body.val ELSE ""

\* Display of usize: the decimal digits
Digit(d) == Ch("0123456789", d + 1)
RECURSIVE ToDecimal(_)
ToDecimal(n) ==
    IF n < 10 THEN Digit(n) ELSE ToDecimal(n \div 10) \o Digit(n % 10)

\* the value of a decimal numeral, and whether a text is one
RECURSIVE DecimalValue(_)
DecimalValue(d) ==
    IF d = "" THEN 0
    ELSE 10 * DecimalValue(SubSeq(d, 1, Len(d) - 1))
             + (Find("0123456789", Ch(d, Len(d))) - 1)
IsNumeral(d) ==
    Len(d) >= 1 /\ \A i \in 1..Len(d) : Find("0123456789", Ch(d, i)) # 0

\* a serializer that prefers the caller's own Content-Length header
ContentLength_fromHeaders(res) ==
    IF /\ "Content-Length" \in DOMAIN res.headers.val
       /\ IsNumeral(res.headers.val["Content-Length"])
    THEN DecimalValue(res.headers.val["Content-Length"])
    ELSE Len(res.body.val)

\* the number format! prints after "Content-Length: ": res.body.unwrap().len()
ContentLength(res) == Len(res.body.val)

\* impl From<HttpResponse> for String: the texts the format! may produce, one
\* for each iteration order of the headers; headers() unwraps self.headers
\* and the length argument unwraps res.body, and an unwrap of None panics
String_from(res) ==
    IF ~res.headers.some \/ ~res.body.some THEN {[panicked |-> TRUE]}
    ELSE LET map == res.headers.val
         IN  {[panicked |-> FALSE,
               text |-> res.version \o " " \o res.status_code \o " "
                        \o res.status_text \o "\r\n"
                        \o HeaderString(map, order, Len(order))
                        \o "Content-Length: " \o ToDecimal(ContentLength(res))
                        \o "\r\n\r\n" \o Body(res)] : order \in IterOrders(map)}

\* what a failing write_all may leave in the stream: a proper prefix of the
\* text
FailedWrites(text) == {SubSeq(text, 1, n) : n \in {0, Len(text) \div 2}}

\* the value send_response returns given the Result of write!: the Result is
\* dropped by `let _ =` and Ok(()) is returned
SendResult(write_result) == "Ok"

\* HttpResponse::send_response: every outcome, with the bytes that reached
\* the stream
send_response(res) ==
    UNION {IF s.panicked
           THEN {[panicked |-> TRUE]}
           ELSE {[panicked |-> FALSE, text |-> s.text, written |-> s.text,
                  write_result |-> "Ok", result |-> SendResult("Ok")]}
                \cup
                {[panicked |-> FALSE, text |-> s.text, written |-> w,
                  write_result |-> "Err", result |-> SendResult("Err")]
                     : w \in FailedWrites(s.text)}
           : s \in String_from(res)}

(***************************************************************************)
(* router.rs                                                               *)
(***************************************************************************)
\* a router that matches on route[0] instead
RouteSegment_first(route) == route[1]

\* the element of the split path the router matches on: route[1], the
\* second one (sequences here count from 1)
RouteSegment(route) == route[2]

\* the match of Router::route on req.method and on route[1]: the handler
\* chosen, or the panic of an index past the end of the vector
SelectHandler(req) ==
    IF req.method = "Get" THEN
        LET route == Split(req.resource, "/")
        IN  IF Len(route) < 2 THEN [panicked |-> TRUE]
            ELSE IF RouteSegment(route) = "api"
                 THEN [panicked |-> FALSE, handler |-> "WebServiceHandler"]
                 ELSE [panicked |-> FALSE, handler |-> "StaticPageHandler"]
    ELSE [panicked |-> FALSE, handler |-> "PageNotFoundHandler"]

\* Handler::handle of the three handlers (handler.rs): some response built
\* by HttpResponse::new, with or without a body
Handle(handler, req) ==
    {HttpResponse_new(code, None, body) :
        code \in {"200", "404"}, body \in {None, Some("xxxx")}}

\* the value Router::route hands back to its caller: the function returns
\* the unit value, the Result of send_response is dropped by `let _ =`
RouteResult(send_result) == "()"

\* Router::route: every outcome
route(req) ==
    LET sel == SelectHandler(req)
    IN  IF sel.panicked
        THEN {[panicked |-> TRUE, at |-> "route[1]", handlers |-> <<>>,
               texts |-> <<>>, written |-> "", write_result |-> "none",
               send_result |-> "none", route_result |-> "none"]}
        ELSE {IF s.panicked
              THEN [panicked |-> TRUE, at |-> "unwrap", handlers |-> <<sel.handler>>,
                    texts |-> <<>>, written |-> "", write_result |-> "none",
                    send_result |-> "none", route_result |-> "none"]
              ELSE [panicked |-> FALSE, at |-> "", handlers |-> <<sel.handler>>,
                    texts |-> <<s.text>>, written |-> s.written,
                    write_result |-> s.write_result,
                    send_result |-> s.result,
                    route_result |-> RouteResult(s.result)]
              : s \in UNION {send_response(resp) : resp \in Handle(sel.handler, req)}}

(***************************************************************************)
(* server.rs                                                               *)
(***************************************************************************)
\* the byte 0 of the fresh buffer, and a byte no UTF-8 text contains (0xFF)
NUL == "~"
BAD == "#"

RECURSIVE Repeat(_, _)
Repeat(c, n) == IF n <= 0 THEN "" ELSE c \o Repeat(c, n - 1)

\* the buffer after stream.read: the bytes received (data is what this one
\* read call gets), at most the size of the buffer, the rest of it still zero
ReadInto(data) ==
    LET got == SubSeq(data, 1, IF Len(data) < BufLen THEN Len(data) ELSE BufLen)
    IN  got \o Repeat(NUL, BufLen - Len(got))

\* String::from_utf8(buffer.to_vec()): an error on bytes that are no UTF-8
FromUtf8(bytes) == IF Contains(bytes, BAD) THEN None ELSE Some(bytes)

\* String::from_utf8(..).unwrap().into(): the request, or a panic
ParseBuffer(bytes) ==
    LET text == FromUtf8(bytes)
    IN  IF ~text.some THEN [panicked |-> TRUE, at |-> "from_utf8"]
        ELSE LET r == HttpRequest_from(text.val)
             IN  IF r.panicked THEN [panicked |-> TRUE, at |-> "process_req_line"]
                 ELSE [panicked |-> FALSE, at |-> "", req |-> HttpRequest(r)]

(***************************************************************************)
(* Inputs                                                                  *)
(***************************************************************************)
\* the lines request texts are made of
LineCorpus ==
    {"GET /greeting HTTP/1.1", "POST /api HTTP\\1.1", "HTTP", "GET HTTP/2.0",
     "Host: localhost:3000", "Host:a", ":", "", "xxxx", "body 2"}

\* the lines, each followed by eol when terminated, else separated by it
RECURSIVE Join(_, _, _, _)
Join(ls, n, eol, terminated) ==
    IF n = 0 THEN ""
    ELSE Join(ls, n - 1, eol, terminated) \o ls[n]
             \o (IF terminated \/ n < Len(ls) THEN eol ELSE "")

\* the texts given to the parser: CRLF-terminated lines, or lines separated
\* by bare line feeds
RequestTexts ==
    UNION {UNION {{Join(ls, n, "\r\n", TRUE), Join(ls, n, "\n", FALSE)} :
                     ls \in [1..n -> LineCorpus]} : n \in 0..MaxLines}

StatusCodes == {"200", "400", "404", "500", "302", ""}

HeaderArgs ==
    {None, Some(EmptyMap), Some(DefaultHeaders),
     Some(Insert(EmptyMap, "Content-Length", "99")),
     Some(Insert(Insert(EmptyMap, "Content-Length", " 7"), "Host", " a:1"))}

BodyArgs ==
    {None, Some("a\r\nb")} \cup {Some(Repeat("x", n)) : n \in 0..MaxBodyLen}

\* the requests given to the router directly
RoutePaths ==
    {"", "/", "/api", "/api/x", "/api/", "/apix", "/greeting", "/x/api",
     "//api", "api", "x/api"}
RouteRequests ==
    {[method |-> m, version |-> "Uninitialized", resource |-> p,
      headers |-> EmptyMap, msg_body |-> ""] :
        m \in {"Get", "Post", "Uninitialized"}, p \in RoutePaths}

\* what the clients of the server send
ClientData ==
    {"GET /api/x HTTP/1.1\r\n\r\n", "GET / HTTP/1.1\r\n", "POST /api HTTP/1.1\r\n",
     "GET x HTTP/1.1\r\n", "HTTP\r\n", "", "GET /a" \o BAD,
     "GET /greeting HTTP/1.1\r\nHost: a\r\n\r\n"}

(***************************************************************************)
(* State                                                                   *)
(***************************************************************************)
VARIABLES
    \* From<String> for HttpRequest
    req_string,   \* the argument req
    lineNo,       \* the lines of req.lines() the loop has consumed
    parser,       \* the locals parsed_method, parsed_version, ...
    parsed,       \* the HttpRequest returned, when it has returned
    ppc,          \* "loop", "returned" or "panicked"
    \* HttpResponse
    response,     \* the value built by HttpResponse::new
    wire,         \* the String made of it
    rpc,          \* "new", "built", "serialized" or "panicked"
    \* Server::run and Router::route
    pc,           \* "accept", "read", "parse", "route" or "panicked"
    conn,         \* the connections accepted so far; the current one
    buffer,       \* the local buffer
    req,          \* the local req
    streams,      \* the bytes written to each connection's stream
    handled,      \* the handlers invoked for each connection
    texts,        \* the serialized responses given to write! for each connection
    io,           \* the Results of the last call of route
    panic         \* where the thread panicked, if it did

pvars == <<req_string, lineNo, parser, parsed, ppc>>
rvars == <<response, wire, rpc>>
svars == <<pc, conn, buffer, req, streams, handled, texts, io, panic>>
vars == <<pvars, rvars, svars>>

Conns == 1..MaxConns

NoIo == [write_result |-> "none", send_result |-> "none", route_result |-> "none"]

ParserIdle ==
    /\ req_string = ""
    /\ lineNo = 0
    /\ parser = ParserInit
    /\ parsed = None
    /\ ppc = "idle"

ResponseIdle ==
    /\ response = None
    /\ wire = None
    /\ rpc = "idle"

ServerStart ==
    /\ buffer = ""
    /\ streams = [c \in Conns |-> ""]
    /\ handled = [c \in Conns |-> <<>>]
    /\ texts = [c \in Conns |-> <<>>]
    /\ io = NoIo
    /\ panic = ""

ServerIdle ==
    /\ pc = "idle"
    /\ conn = 0
    /\ req = None
    /\ ServerStart

(***************************************************************************)
(* The parser: From<String> for HttpRequest, one line of the loop at a     *)
(* time, on every text of RequestTexts.                                    *)
(***************************************************************************)
InitParse ==
    /\ req_string \in RequestTexts
    /\ lineNo = 0
    /\ parser = ParserInit
    /\ parsed = None
    /\ ppc = "loop"
    /\ ResponseIdle
    /\ ServerIdle

\* one iteration of `for line in req.lines()`
ParseForLine ==
    /\ ppc = "loop"
    /\ lineNo < Len(Lines(req_string))
    /\ lineNo' = lineNo + 1
    /\ parser' = ForLine(parser, Lines(req_string)[lineNo + 1])
    /\ ppc' = IF parser'.panicked THEN "panicked" ELSE "loop"
    /\ UNCHANGED <<req_string, parsed, rvars, svars>>

\* the end of the loop: the struct is built and returned
ParseReturn ==
    /\ ppc = "loop"
    /\ lineNo = Len(Lines(req_string))
    /\ parsed' = Some(HttpRequest(parser))
    /\ ppc' = "returned"
    /\ UNCHANGED <<req_string, lineNo, parser, rvars, svars>>

NextParse == ParseForLine \/ ParseReturn

SpecParse == InitParse /\ [][NextParse]_vars

(***************************************************************************)
(* The response: HttpResponse::new, then From<HttpResponse> for String.    *)
(***************************************************************************)
InitResp ==
    /\ ParserIdle
    /\ response = None
    /\ wire = None
    /\ rpc = "new"
    /\ ServerIdle

RespNew ==
    /\ rpc = "new"
    /\ \E status_code \in StatusCodes, headers \in HeaderArgs, body \in BodyArgs :
           response' = Some(HttpResponse_new(status_code, headers, body))
    /\ rpc' = "built"
    /\ UNCHANGED <<wire, pvars, svars>>

RespInto ==
    /\ rpc = "built"
    /\ \E s \in String_from(response.val) :
           IF s.panicked
           THEN rpc' = "panicked" /\ wire' = wire
           ELSE rpc' = "serialized" /\ wire' = Some(s.text)
    /\ UNCHANGED <<response, pvars, svars>>

NextResp == RespNew \/ RespInto

SpecResp == InitResp /\ [][NextResp]_vars

(***************************************************************************)
(* The server: Server::run, which accepts a connection, reads it, parses   *)
(* the bytes and calls Router::route, in a loop.                           *)
(***************************************************************************)
Init ==
    /\ ParserIdle
    /\ ResponseIdle
    /\ pc = "accept"
    /\ conn = 0
    /\ req = None
    /\ ServerStart

\* connection_listener.incoming() yields a stream, or an error that
\* stream.unwrap() turns into a panic
Accept ==
    /\ pc = "accept"
    /\ conn < MaxConns
    /\ buffer' = ""
    /\ req' = None
    /\ io' = NoIo
    /\ \/ /\ conn' = conn + 1
          /\ pc' = "read"
          /\ panic' = panic
       \/ /\ conn' = conn
          /\ pc' = "panicked"
          /\ panic' = "accept"
    /\ UNCHANGED <<streams, handled, texts, pvars, rvars>>

\* stream.read(&mut buffer).unwrap() on a fresh zeroed buffer
Read ==
    /\ pc = "read"
    /\ \/ /\ \E data \in ClientData : buffer' = ReadInto(data)
          /\ pc' = "parse"
          /\ panic' = panic
       \/ /\ buffer' = Repeat(NUL, BufLen)
          /\ pc' = "panicked"
          /\ panic' = "read"
    /\ UNCHANGED <<conn, req, streams, handled, texts, io, pvars, rvars>>

\* String::from_utf8(buffer.to_vec()).unwrap().into()
Parse ==
    /\ pc = "parse"
    /\ LET r == ParseBuffer(buffer)
       IN  IF r.panicked
           THEN /\ pc' = "panicked"
                /\ panic' = r.at
                /\ req' = req
           ELSE /\ pc' = "route"
                /\ panic' = panic
                /\ req' = Some(r.req)
    /\ UNCHANGED <<conn, buffer, streams, handled, texts, io, pvars, rvars>>

\* Router::route(req, &mut stream), the stream being the current connection's
Route ==
    /\ pc = "route"
    /\ \E o \in route(req.val) :
           /\ streams' = [streams EXCEPT ![conn] = @ \o o.written]
           /\ handled' = [handled EXCEPT ![conn] = @ \o o.handlers]
           /\ texts' = [texts EXCEPT ![conn] = @ \o o.texts]
           /\ io' = [write_result |-> o.write_result,
                     send_result  |-> o.send_result,
                     route_result |-> o.route_result]
           /\ pc' = IF o.panicked THEN "panicked" ELSE "accept"
           /\ panic' = IF o.panicked THEN o.at ELSE panic
    /\ UNCHANGED <<conn, buffer, req, pvars, rvars>>

Next == Accept \/ Read \/ Parse \/ Route

Spec == Init /\ [][Next]_vars

(***************************************************************************)
(* The router alone: Router::route on every request of RouteRequests.      *)
(***************************************************************************)
InitRoute ==
    /\ ParserIdle
    /\ ResponseIdle
    /\ pc = "route"
    /\ conn = 1
    /\ req \in {Some(r) : r \in RouteRequests}
    /\ ServerStart

NextRoute == Route

SpecRoute == InitRoute /\ [][NextRoute]_vars

(***************************************************************************)
(* Properties of the parser (SpecParse)                                    *)
(***************************************************************************)
\* the line the loop has just consumed
LastLine == Lines(req_string)[lineNo]
Consumed == ppc \in {"loop", "panicked"} /\ lineNo > 0

IsRequestLine(line) == Contains(line, "HTTP")
IsHeaderLine(line) == ~Contains(line, "HTTP") /\ Contains(line, ":")
IsBodyLine(line) == line # "" /\ ~Contains(line, "HTTP") /\ ~Contains(line, ":")

\* C1: parse never fails: whatever the text, the parser returns a request
\* and does not panic; a line that contains "HTTP" and has fewer than three
\* whitespace-delimited tokens leaves method, resource and version as they
\* were before that line.
C1_ParseNeverFails ==
    /\ ppc # "panicked"
    /\ (Consumed /\ IsRequestLine(LastLine) /\ Len(SplitWhitespace(LastLine)) < 3)
          => LET before == ParseLines(Lines(req_string), lineNo - 1)
             IN  /\ parser.method = before.method
                 /\ parser.resource = before.resource
                 /\ parser.version = before.version

\* C6: a header line is split at its first colon only: the key is the text
\* before the first colon and the value all the text after it, further
\* colons and leading spaces kept.
C6_HeaderSplitAtFirstColon ==
    (Consumed /\ IsHeaderLine(LastLine))
       => LET i == Find(LastLine, ":")
              key == SubSeq(LastLine, 1, i - 1)
          IN  /\ key \in DOMAIN parser.headers
              /\ parser.headers[key] = Drop(LastLine, i)

\* C8: the version token HTTP/1.1, and it alone, converts to V1_1, so that
\* a request line "GET /greeting HTTP/1.1" parses to V1_1; no text parses to
\* V2_0.
C8_VersionLiteral ==
    /\ parser.version # "V2_0"
    /\ (Consumed /\ ppc = "loop" /\ IsRequestLine(LastLine))
          => (parser.version = "V1_1"
                 <=> SplitWhitespace(LastLine)[3] = "HTTP/1.1")

\* the last body line among the first n lines, "" when there is none
RECURSIVE LastBodyLine(_, _)
LastBodyLine(ls, n) ==
    IF n = 0 THEN ""
    ELSE IF IsBodyLine(ls[n]) THEN ls[n] ELSE LastBodyLine(ls, n - 1)

\* C9: after any sequence of lines the body is the last line that is
\* non-empty and holds neither "HTTP" nor a colon, or "" when there is no
\* such line: a later body line replaces an earlier one, and request lines,
\* header lines and empty lines leave the body alone. It holds after every
\* line consumed and of the request returned.
C9_BodyIsLastBodyLine ==
    /\ ppc = "loop" => parser.msg_body = LastBodyLine(Lines(req_string), lineNo)
    /\ ppc = "returned" =>
          parsed.val.msg_body =
              LastBodyLine(Lines(req_string), Len(Lines(req_string)))

\* C9 happens: two different body lines, then a header line, and the request
\* returned holds the second body line
C9_Witness ==
    /\ ppc = "returned"
    /\ Lines(req_string) = <<"xxxx", "body 2", "Host:a">>
    /\ parsed.val.msg_body = "body 2"

(***************************************************************************)
(* Properties of the response (SpecResp)                                   *)
(***************************************************************************)
Serialization == rpc \in {"serialized", "panicked"}

StatusLine(res) ==
    res.version \o " " \o res.status_code \o " " \o res.status_text \o "\r\n"

HasPrefix(s, pre) == Len(s) >= Len(pre) /\ SubSeq(s, 1, Len(pre)) = pre

\* C2: serializing a response without a body does not fail: it yields the
\* status line, the header lines, "Content-Length: 0", a blank line and an
\* empty body.
C2_AbsentBodySerializes ==
    (Serialization /\ ~response.val.body.some)
       => /\ rpc = "serialized"
          /\ \E order \in IterOrders(response.val.headers.val) :
                 wire.val = StatusLine(response.val)
                              \o HeaderString(response.val.headers.val, order, Len(order))
                              \o "Content-Length: 0\r\n\r\n"

\* C7: the text of a response with a body b is the status line, the header
\* lines "<key>:<value>\r\n" in some order, a Content-Length line, a blank
\* line and b; the number on the Content-Length line is the length of b,
\* whatever the headers hold. So the response built from "404", no headers
\* and the body "xxxx" gives the text of test_http_response_creation.
C7_WireOfPresentBody ==
    (Serialization /\ response.val.body.some)
       => /\ rpc = "serialized"
          /\ \E order \in IterOrders(response.val.headers.val) :
                 LET b == response.val.body.val
                     head == StatusLine(response.val)
                               \o HeaderString(response.val.headers.val, order, Len(order))
                               \o "Content-Length: "
                     tail == "\r\n\r\n" \o b
                     number == SubSeq(wire.val, Len(head) + 1,
                                      Len(wire.val) - Len(tail))
                 IN  /\ HasPrefix(wire.val, head)
                     /\ HasSuffix(wire.val, tail)
                     /\ Len(wire.val) > Len(head) + Len(tail)
                     /\ IsNumeral(number)
                     /\ DecimalValue(number) = Len(b)
          /\ (response.val.status_code = "404"
                 /\ response.val.headers.val = DefaultHeaders
                 /\ response.val.body.val = "xxxx")
                => wire.val = "HTTP/1.1 404 Not Found\r\nContent-Type:text/html\r\n"
                                \o "Content-Length: 4\r\n\r\nxxxx"

\* C7 happens: a response whose headers carry their own Content-Length and
\* whose body is ten bytes or more has been serialized
C7_Witness ==
    /\ rpc = "serialized"
    /\ response.val.body.some
    /\ Len(response.val.body.val) >= 10
    /\ "Content-Length" \in DOMAIN response.val.headers.val

(***************************************************************************)
(* Properties of the router (SpecRoute)                                    *)
(***************************************************************************)
Routed == pc # "route"

LeadingSlash(path) == HasPrefix(path, "/")

\* the text between the leading slash and the next slash, or the end
FirstSegment(path) ==
    LET rest == Drop(path, 1)
        i == Find(rest, "/")
    IN  IF i = 0 THEN rest ELSE SubSeq(rest, 1, i - 1)

\* C3: a write failure of the sink is surfaced: send_response returns an
\* error, the write is not tried again, and the caller of route gets the
\* error too.
C3_WriteFailureSurfaced ==
    io.write_result = "Err"
       => /\ io.send_result = "Err"
          /\ io.route_result = "Err"
          /\ Len(texts[conn]) = 1

\* C4: the handler follows from the request alone: a request whose method is
\* not GET goes to the Not-Found handler whatever its path, a GET request
\* whose first path segment after the leading slash is "api" to the API
\* handler, every other GET request for a path /<segment>... to the
\* Static-resource handler.
C4_RouteSelectsHandler ==
    Routed =>
        LET r == req.val
        IN  /\ r.method # "Get"
                 => handled[conn] = <<"PageNotFoundHandler">>
            /\ (r.method = "Get" /\ LeadingSlash(r.resource)
                   /\ FirstSegment(r.resource) = "api")
                 => handled[conn] = <<"WebServiceHandler">>
            /\ (r.method = "Get" /\ LeadingSlash(r.resource)
                   /\ FirstSegment(r.resource) # "api")
                 => handled[conn] = <<"StaticPageHandler">>

\* C4 happens: GET /api/x has been routed to the API handler
C4_Witness ==
    /\ Routed
    /\ req.val.method = "Get"
    /\ req.val.resource = "/api/x"
    /\ handled[conn] = <<"WebServiceHandler">>

\* C5: the segment lookup is guarded: no GET request, whatever its path,
\* makes route fail on an index out of bounds, and a path whose split on "/"
\* has no second piece goes to the Static-resource handler.
C5_GuardedSegmentLookup ==
    (Routed /\ req.val.method = "Get")
       => /\ panic # "route[1]"
          /\ Len(Split(req.val.resource, "/")) < 2
                => handled[conn] = <<"StaticPageHandler">>

(***************************************************************************)
(* Properties of the server (Spec)                                         *)
(***************************************************************************)
\* the connections whose handling has ended: those before the current one,
\* and the current one once route has returned or the thread has panicked
\* with the connection's request text in hand
Ended(c) ==
    \/ c < conn
    \/ c = conn /\ pc = "accept"
    \/ c = conn /\ pc = "panicked" /\ panic \notin {"accept", "read", "from_utf8"}

\* C10: requests are handled one at a time: every connection accepted is
\* read, parsed, routed to exactly one handler and answered by exactly one
\* serialized response on its own stream before the next is read; nothing is
\* written on another connection's stream and no request is answered twice.
C10_OneAtATime ==
    \A c \in Conns :
        /\ (c <= conn /\ Ended(c))
              => /\ Len(handled[c]) = 1
                 /\ Len(texts[c]) = 1
                 /\ streams[c] = texts[c][1]
        /\ (c > conn \/ (c = conn /\ pc \in {"read", "parse", "route"}))
              => streams[c] = ""

=============================================================================
